---- MODULE Spec2Model ----
(***************************************************************************)
(* boardswarm server (src/boardswarm/src/main.rs): the resource            *)
(* registries, one device with its binding task (Device::monitor_items),   *)
(* the mode sequencer (Device::set_mode) and the device_change_mode RPC.   *)
(*                                                                         *)
(* Option<T> is modelled as a set with at most one element: None is {} and *)
(* Some(x) is {x}.                                                         *)
(***************************************************************************)
EXTENDS Integers, Sequences, FiniteSets, TLC

None == {}
Some(x) == {x}
IsSome(o) == o # {}

(***************************************************************************)
(* Bounds of the model.                                                    *)
(***************************************************************************)
\* registrations (Registry::add calls) over the three resource registries
MaxAdds == 2
\* device_change_mode requests issued in one behaviour
MaxCalls == 3
\* console registrations and requests in the specification of the whole device
DeviceAdds == 2
DeviceCalls == 1

(***************************************************************************)
(* Registry (mod registry; its source is not part of src/, so it is        *)
(* modelled from the specification, sections 4.1 and 4.2).                 *)
(***************************************************************************)
Kinds == {"actuator", "console", "uploader"}

\* Capacity of the change-event channel a Registry::monitor() receiver reads.
MonitorCapacity == 2

\* Properties::matches: every required pair is present with that exact value.
Matches(properties, match_) == \A kv \in match_ : kv \in properties

\* The Properties a provider may register an entry of each kind with.
PropChoices(k) ==
    CASE k = "console"  -> { {<<"name", "c1">>, <<"usb-id", "1234">>},
                             {<<"name", "c2">>, <<"usb-id", "9999">>} }
      [] k = "uploader" -> { {<<"name", "u1">>, <<"type", "dfu">>} }
      [] k = "actuator" -> { {<<"name", "pdu">>}, {<<"name", "boot">>} }

\* Registry::new: no entries, ids start at 1, no subscriber
EmptyRegistry == [next |-> 1, items |-> << >>]

RECURSIVE SortedIds(_)
SortedIds(S) ==
    IF S = {} THEN << >>
    ELSE LET m == CHOOSE x \in S : \A y \in S : x <= y
         IN  <<m>> \o SortedIds(S \ {m})

\* Registry::contents: the (id, properties) pairs in ascending id order
Contents(reg) ==
    LET ids == SortedIds(DOMAIN reg.items)
    IN  [i \in 1..Len(ids) |-> [id |-> ids[i], properties |-> reg.items[ids[i]]]]

\* Registry::lookup
Lookup(reg, id) ==
    IF id \in DOMAIN reg.items THEN Some(reg.items[id]) ELSE None

\* Registry::find: the first entry whose properties satisfy the criteria
Find(reg, match_) ==
    LET hits == {i \in DOMAIN reg.items : Matches(reg.items[i], match_)}
    IN  IF hits = {} THEN None
        ELSE Some(CHOOSE i \in hits : \A j \in hits : i <= j)

\* A receiver nobody holds
ClosedMonitor == [open |-> FALSE, queue |-> << >>, lagged |-> FALSE]
\* Registry::monitor: a fresh receiver that sees the changes made from now on
OpenMonitor == [open |-> TRUE, queue |-> << >>, lagged |-> FALSE]

\* The channel delivering one change to a receiver.  A receiver that is
\* MonitorCapacity changes behind loses the oldest one and is told so by its
\* next recv; the binding task drops the receiver on that error, so what the
\* channel still retains for it can no longer be read.
Deliver(mon, ev) ==
    IF ~mon.open \/ mon.lagged THEN mon
    ELSE IF Len(mon.queue) < MonitorCapacity
         THEN [mon EXCEPT !.queue = Append(@, ev)]
         ELSE [mon EXCEPT !.queue = << >>, !.lagged = TRUE]

Added(id, properties) == [type |-> "Added", id |-> id, properties |-> properties]
Removed(id) == [type |-> "Removed", id |-> id]

(***************************************************************************)
(* The configuration of the device (config::Device, read at startup).      *)
(***************************************************************************)
ConsoleCfg ==
    << [name |-> "main", match_ |-> {<<"usb-id", "1234">>}, parameters |-> "115200"] >>

UploaderCfg ==
    << [name |-> "dfu", match_ |-> {<<"type", "dfu">>}] >>

ModeCfg ==
    << [name |-> "off", depends |-> None,
        sequence |-> << [match_ |-> {<<"name", "pdu">>}, parameters |-> "off",
                         stabilisation |-> TRUE] >>],
       [name |-> "on", depends |-> Some("off"),
        sequence |-> << [match_ |-> {<<"name", "pdu">>}, parameters |-> "on",
                         stabilisation |-> FALSE],
                        [match_ |-> {<<"name", "boot">>}, parameters |-> "normal",
                         stabilisation |-> FALSE] >>] >>

ConsoleSlots == DOMAIN ConsoleCfg
UploaderSlots == DOMAIN UploaderCfg
\* modes.iter().flat_map(|m| m.sequence.iter()): every step of every mode
StepSlots ==
    UNION {{<<m, s>> : s \in DOMAIN ModeCfg[m].sequence} : m \in DOMAIN ModeCfg}
StepCfg == [ms \in StepSlots |-> ModeCfg[ms[1]].sequence[ms[2]]]
ModeNames == {ModeCfg[m].name : m \in DOMAIN ModeCfg}

\* The declared slots of each kind and their configuration
SlotCfg(k) ==
    CASE k = "console"  -> ConsoleCfg
      [] k = "uploader" -> UploaderCfg
      [] k = "actuator" -> StepCfg

\* The devices registry: main registers the one configured device, which gets
\* the first id, and never removes it.
DeviceId == 1
get_device(id) == IF id = DeviceId THEN Some(DeviceId) ELSE None

VARIABLES
    watch,         \* the monitor RPC being served: its receiver and the events sent
    input,         \* the console_stream_input RPC being served
    upload,        \* the uploader_upload RPC being served and its progress channel
    reply,         \* the last answer of an RPC that addresses one resource
    registry,      \* [Kinds -> registry]: Server.inner.{actuators,consoles,uploaders}
    assigned,      \* history: per kind, the properties every id was registered with
    monitor,       \* the binding task's receiver of each registry's changes
    everLagged,    \* history: a receiver of the binding task has lost a change
    slots,         \* DeviceItem.id of every declared slot, per kind
    configured,    \* per console id, the number of Console::configure calls made
    bpc,           \* position of the binding task in Device::monitor_items
    changed,       \* local `changed` of Device::monitor_items
    current_mode,  \* DeviceInner.current_mode
    call,          \* per client, the device_change_mode request it has in progress
    log,           \* history: calls, writes of current_mode, notifications, returns
    stream         \* the device_info stream of one client

vars == <<watch, input, upload, reply, registry, assigned, monitor, everLagged, slots,
          configured, bpc, changed, current_mode, call, log, stream>>

(***************************************************************************)
(* DeviceItem                                                              *)
(***************************************************************************)
\* set_if_matches without the comparison of the properties
set_unchecked(cur, cfg, id, properties) == [id |-> Some(id), ret |-> TRUE]

\* DeviceItem::set_if_matches: the new id of the slot and the returned flag
set_if_matches(cur, cfg, id, properties) ==
    IF Matches(properties, cfg.match_)
    THEN [id |-> Some(id), ret |-> TRUE]
    ELSE [id |-> cur, ret |-> FALSE]

\* unset_if_matches with the comparison inverted
unset_if_differs(cur, id) ==
    IF IsSome(cur) /\ cur # Some(id)
    THEN [id |-> None, ret |-> TRUE]
    ELSE [id |-> cur, ret |-> FALSE]

\* DeviceItem::unset_if_matches
unset_if_matches(cur, id) ==
    IF cur = Some(id)
    THEN [id |-> None, ret |-> TRUE]
    ELSE [id |-> cur, ret |-> FALSE]

\* add_item_with / add_item: the fold over the slots of one kind.  hits is the
\* number of calls of f (setup_console for consoles, nothing otherwise).
add_item_with(items, cfg, id, properties) ==
    LET r == [i \in DOMAIN items |-> set_if_matches(items[i], cfg[i], id, properties)]
    IN  [items   |-> [i \in DOMAIN items |-> r[i].id],
         changed |-> \E i \in DOMAIN items : r[i].ret,
         hits    |-> Cardinality({i \in DOMAIN items : r[i].ret})]

\* change_with clearing every slot at a removal
change_with_clear_all(items, cfg, change) ==
    IF change.type = "Added"
    THEN add_item_with(items, cfg, change.id, change.properties)
    ELSE [items   |-> [i \in DOMAIN items |-> None],
          changed |-> \E i \in DOMAIN items : IsSome(items[i]),
          hits    |-> 0]

\* change_with / change
change_with(items, cfg, change) ==
    IF change.type = "Added"
    THEN add_item_with(items, cfg, change.id, change.properties)
    ELSE LET r == [i \in DOMAIN items |-> unset_if_matches(items[i], change.id)]
         IN  [items   |-> [i \in DOMAIN items |-> r[i].id],
              changed |-> \E i \in DOMAIN items : r[i].ret,
              hits    |-> 0]

\* The loops over Registry::contents() of monitor_items: entries from index n on
RECURSIVE AddContents(_, _, _, _, _, _)
AddContents(items, cfg, entries, n, chg, conf) ==
    IF n > Len(entries) THEN [items |-> items, changed |-> chg, conf |-> conf]
    ELSE LET e == entries[n]
             r == add_item_with(items, cfg, e.id, e.properties)
         IN  AddContents(r.items, cfg, entries, n + 1, chg \/ r.changed,
                         [conf EXCEPT ![e.id] = @ + r.hits])

(***************************************************************************)
(* Initial state: Server::new, Device::from_config, nothing registered.    *)
(***************************************************************************)
KindOrder == <<"actuator", "console", "uploader">>
Clients == {"a", "b"}
IdleCall == [pc |-> "idle", device |-> 0, mode |-> "", k |-> 0, before |-> None, result |-> "",
             status |-> "", emits |-> 0, invoked |-> << >>, actuators |-> {}]
NoStream == [pc |-> "none", pending |-> FALSE, last |-> None]
\* No monitor, console_stream_input or uploader_upload request is being
\* served, and no single-resource RPC has been answered
NoWatch == [pc |-> "none", kind |-> "", mon |-> ClosedMonitor, atSub |-> {},
            events |-> << >>]
NoInput == [pc |-> "none", request |-> << >>, frames |-> << >>, console |-> None,
            sent |-> << >>, status |-> ""]
NoUpload == [pc |-> "none", request |-> << >>, frames |-> << >>, status |-> "",
             started |-> << >>, pulled |-> << >>, tx |-> None, closed |-> FALSE,
             fresh |-> FALSE, updates |-> << >>, observed |-> << >>]
NoReply == [rpc |-> "", known |-> FALSE, status |-> ""]

InitDevice ==
    /\ monitor = [k \in Kinds |-> ClosedMonitor]
    /\ everLagged = FALSE
    /\ slots = [k \in Kinds |-> [i \in DOMAIN SlotCfg(k) |-> None]]
    /\ configured = [i \in 1..MaxAdds |-> 0]
    /\ bpc = [stage |-> "monitor", i |-> 1]
    /\ changed = FALSE
    /\ current_mode = None
    /\ call = [c \in Clients |-> IdleCall]
    /\ log = << >>
    /\ stream = NoStream
    /\ watch = NoWatch
    /\ input = NoInput
    /\ upload = NoUpload
    /\ reply = NoReply

Init ==
    /\ registry = [k \in Kinds |-> EmptyRegistry]
    /\ assigned = [k \in Kinds |-> << >>]
    /\ InitDevice

(***************************************************************************)
(* Providers: Server::register_* and Server::unregister_*                  *)
(***************************************************************************)
TotalAdds ==
    (registry["actuator"].next - 1) + (registry["console"].next - 1)
        + (registry["uploader"].next - 1)

\* Registry::add handing out the smallest id no entry holds
RegistryAddReusing(k, properties) ==
    LET id == CHOOSE i \in 1..registry[k].next :
                 /\ i \notin DOMAIN registry[k].items
                 /\ \A j \in 1..(i - 1) : j \in DOMAIN registry[k].items
    IN  /\ registry' = [registry EXCEPT ![k] =
                           [next |-> @.next + 1, items |-> (id :> properties) @@ @.items]]
        /\ assigned' = [assigned EXCEPT ![k] = (id :> properties) @@ @]
        /\ monitor' = [monitor EXCEPT ![k] = Deliver(@, Added(id, properties))]
        /\ watch' = IF watch.kind = k
                    THEN [watch EXCEPT !.mon = Deliver(@, Added(id, properties))]
                    ELSE watch
        /\ everLagged' = (everLagged \/ monitor'[k].lagged)

\* Registry::add: the next id, the entry inserted, Added broadcast
RegistryAdd(k, properties) ==
    LET id == registry[k].next
    IN  /\ registry' = [registry EXCEPT ![k] =
                           [next |-> id + 1, items |-> (id :> properties) @@ @.items]]
        /\ assigned' = [assigned EXCEPT ![k] = (id :> properties) @@ @]
        /\ monitor' = [monitor EXCEPT ![k] = Deliver(@, Added(id, properties))]
        /\ watch' = IF watch.kind = k
                    THEN [watch EXCEPT !.mon = Deliver(@, Added(id, properties))]
                    ELSE watch
        /\ everLagged' = (everLagged \/ monitor'[k].lagged)

\* Registry::remove: the entry removed, Removed broadcast
RegistryRemove(k, id) ==
    /\ registry' = [registry EXCEPT ![k].items =
                       [i \in (DOMAIN @) \ {id} |-> @[i]]]
    /\ monitor' = [monitor EXCEPT ![k] = Deliver(@, Removed(id))]
    /\ watch' = IF watch.kind = k
                THEN [watch EXCEPT !.mon = Deliver(@, Removed(id))]
                ELSE watch
    /\ everLagged' = (everLagged \/ monitor'[k].lagged)
    /\ UNCHANGED assigned

\* Server::register_actuator / register_console / register_uploader
Register(k, properties) ==
    /\ RegistryAdd(k, properties)
    /\ UNCHANGED <<input, upload, reply, slots, configured, bpc, changed, current_mode,
                   call, log, stream>>

\* Server::unregister_console / unregister_uploader (there is no
\* unregister_actuator)
UnregisterKinds == {"console", "uploader"}
Unregister(k, id) ==
    /\ k \in UnregisterKinds
    /\ IsSome(Lookup(registry[k], id))
    /\ RegistryRemove(k, id)
    /\ UNCHANGED <<input, upload, reply, slots, configured, bpc, changed, current_mode,
                   call, log, stream>>

(***************************************************************************)
(* DeviceNotifier and the device view                                      *)
(***************************************************************************)
\* DeviceNotifier::notify as seen by the device_info stream: its receiver of
\* capacity 1 holds a notification until DeviceMonitor::wait takes it (wait
\* skips the Lagged error of a receiver that missed some).
Notified(st) == IF st.pc = "wait" THEN [st EXCEPT !.pending = TRUE] ELSE st

\* The view with a mode available as soon as one of its steps is bound
DeviceViewAny(sl, mode) ==
    [consoles  |-> [i \in ConsoleSlots |->
                      [name |-> ConsoleCfg[i].name, id |-> sl["console"][i]]],
     uploaders |-> [i \in UploaderSlots |->
                      [name |-> UploaderCfg[i].name, id |-> sl["uploader"][i]]],
     modes     |-> [m \in DOMAIN ModeCfg |->
                      [name |-> ModeCfg[m].name, depends |-> ModeCfg[m].depends,
                       available |-> \E s \in DOMAIN ModeCfg[m].sequence :
                                        IsSome(sl["actuator"][<<m, s>>])]],
     current_mode |-> mode]

\* impl From<&Device> for boardswarm_protocol::Device
DeviceView(sl, mode) ==
    [consoles  |-> [i \in ConsoleSlots |->
                      [name |-> ConsoleCfg[i].name, id |-> sl["console"][i]]],
     uploaders |-> [i \in UploaderSlots |->
                      [name |-> UploaderCfg[i].name, id |-> sl["uploader"][i]]],
     modes     |-> [m \in DOMAIN ModeCfg |->
                      [name |-> ModeCfg[m].name, depends |-> ModeCfg[m].depends,
                       available |-> \A s \in DOMAIN ModeCfg[m].sequence :
                                        IsSome(sl["actuator"][<<m, s>>])]],
     current_mode |-> mode]

(***************************************************************************)
(* The binding task: Device::monitor_items, re-run by main when it returns *)
(***************************************************************************)
\* let mut x_monitor = ...monitor(): the three subscriptions, in source order
BindMonitor ==
    /\ bpc.stage = "monitor"
    /\ monitor' = [monitor EXCEPT ![KindOrder[bpc.i]] = OpenMonitor]
    /\ bpc' = IF bpc.i < 3 THEN [bpc EXCEPT !.i = @ + 1]
                            ELSE [stage |-> "contents", i |-> 1]
    /\ changed' = FALSE
    /\ UNCHANGED <<watch, input, upload, reply, registry,
                   assigned, everLagged, slots, configured, current_mode,
                   call, log, stream>>

\* The task going on without reading the contents of the registry
BindContentsSkipped ==
    /\ bpc.stage = "contents"
    /\ bpc' = IF bpc.i < 3 THEN [bpc EXCEPT !.i = @ + 1]
               ELSE [stage |-> "select", i |-> 0]
    /\ UNCHANGED <<watch, input, upload, reply, registry, assigned, monitor, everLagged,
                   slots, configured, changed, current_mode, call, log, stream>>

\* for (id, properties, ..) in ...contents(): the three snapshot loops
BindContents ==
    /\ bpc.stage = "contents"
    /\ LET k == KindOrder[bpc.i]
           r == AddContents(slots[k], SlotCfg(k), Contents(registry[k]), 1,
                            changed, configured)
       IN  /\ slots' = [slots EXCEPT ![k] = r.items]
           /\ configured' = IF k = "console" THEN r.conf ELSE configured
           /\ changed' = r.changed
           /\ bpc' = IF bpc.i < 3 THEN [bpc EXCEPT !.i = @ + 1]
                      ELSE IF r.changed THEN [stage |-> "notify", i |-> 0]
                      ELSE [stage |-> "select", i |-> 0]
    /\ UNCHANGED <<watch, input, upload, reply, registry,
                   assigned, monitor, everLagged, current_mode, call, log,
                   stream>>

\* if changed { self.inner.notifier.notify().await } after the snapshot and
\* after a change
BindNotify ==
    /\ bpc.stage = "notify"
    /\ stream' = Notified(stream)
    /\ bpc' = [stage |-> "select", i |-> 0]
    /\ UNCHANGED <<watch, input, upload, reply, registry,
                   assigned, monitor, everLagged, slots, configured, changed,
                   current_mode, call, log>>

\* tokio::select! arm Ok(c) of the receiver of kind k
BindChange(k) ==
    /\ bpc.stage = "select"
    /\ ~monitor[k].lagged
    /\ monitor[k].queue # << >>
    /\ LET c == Head(monitor[k].queue)
           r == change_with(slots[k], SlotCfg(k), c)
       IN  /\ slots' = [slots EXCEPT ![k] = r.items]
           /\ configured' = IF k = "console" /\ c.type = "Added"
                             THEN [configured EXCEPT ![c.id] = @ + r.hits]
                             ELSE configured
           /\ changed' = r.changed
           /\ bpc' = IF r.changed THEN [stage |-> "notify", i |-> 0] ELSE bpc
    /\ monitor' = [monitor EXCEPT ![k].queue = Tail(@)]
    /\ UNCHANGED <<watch, input, upload, reply, registry,
                   assigned, everLagged, current_mode, call, log, stream>>

\* tokio::select! arm Err(e) of the receiver of kind k: monitor_items returns,
\* dropping its three receivers, and main's loop calls it again
BindLagged(k) ==
    /\ bpc.stage = "select"
    /\ monitor[k].lagged
    /\ monitor' = [j \in Kinds |-> ClosedMonitor]
    /\ bpc' = [stage |-> "monitor", i |-> 1]
    /\ UNCHANGED <<watch, input, upload, reply, registry,
                   assigned, everLagged, slots, configured, changed,
                   current_mode, call, log, stream>>

(***************************************************************************)
(* The mode sequencer: Device::set_mode behind Server::device_change_mode  *)
(***************************************************************************)
\* The (device id, mode name) pairs a client may request: every declared mode
\* and an undeclared one of the device, and a device id that is not registered
DeviceInputs == {DeviceId, DeviceId + 1}
Requests ==
    {<<DeviceId, m>> : m \in ModeNames \cup {"flash"}} \cup {<<DeviceId + 1, "off">>}

InFlight(c) == call[c].pc \in {"step", "sleep", "store", "notify"}
NumCalls == Cardinality({i \in DOMAIN log : log[i].op = "call"})

\* self.inner.modes.iter().find(|m| m.name == mode)
FindMode(name) ==
    LET hits == {m \in DOMAIN ModeCfg : ModeCfg[m].name = name}
    IN  IF hits = {} THEN None ELSE Some(CHOOSE m \in hits : \A n \in hits : m <= n)

\* The prerequisite check left out
DependsIgnored(target, current) == TRUE

\* The check made under the current_mode lock
DependsOk(target, current) ==
    ~IsSome(target.depends) \/ current = target.depends

\* The match of Server::device_change_mode on the result of set_mode
StatusOf(result) ==
    CASE result = "Ok"               -> "ok"
      [] result = "ModeNotFound"     -> "not_found"
      [] result = "WrongCurrentMode" -> "failed_precondition"
      [] result = "ActuatorFailed"   -> "aborted"
      [] result = "NoDevice"         -> "not_found"

Returned(cl, result) ==
    [cl EXCEPT !.pc = "done", !.result = result, !.status = StatusOf(result)]

\* The failure paths notifying the subscribers like the success path
FailedNotified(cl) == Returned([cl EXCEPT !.emits = @ + 1], "ActuatorFailed")

\* return Err(ActuatorError {}.into()) and the `?` on the actuator's result:
\* set_mode returns without touching current_mode or the notifier
Failed(cl) == Returned(cl, "ActuatorFailed")

\* set_mode storing the requested name before looking the mode up
BeginStoresName(name, current) ==
    LET t == FindMode(name)
    IN  IF ~IsSome(t) THEN [current |-> Some(name), result |-> "ModeNotFound"]
        ELSE LET target == ModeCfg[CHOOSE m \in t : TRUE]
             IN  IF DependsOk(target, current)
                 THEN [current |-> None, result |-> "Ok"]
                 ELSE [current |-> current, result |-> "WrongCurrentMode"]

\* set_mode clearing current_mode before the prerequisite check
BeginClearsFirst(name, current) ==
    LET t == FindMode(name)
    IN  IF ~IsSome(t) THEN [current |-> current, result |-> "ModeNotFound"]
        ELSE LET target == ModeCfg[CHOOSE m \in t : TRUE]
             IN  IF DependsOk(target, current)
                 THEN [current |-> None, result |-> "Ok"]
                 ELSE [current |-> None, result |-> "WrongCurrentMode"]

\* What set_mode does to current_mode before its first step, given the mode
\* lookup: the new value and the result so far
Begin(name, current) ==
    LET t == FindMode(name)
    IN  IF ~IsSome(t) THEN [current |-> current, result |-> "ModeNotFound"]
        ELSE LET target == ModeCfg[CHOOSE m \in t : TRUE]
             IN  IF DependsOk(target, current)
                 THEN [current |-> None, result |-> "Ok"]
                 ELSE [current |-> current, result |-> "WrongCurrentMode"]

\* Server::device_change_mode up to the first suspension of set_mode: the
\* device lookup, the mode lookup, the prerequisite check and the clearing of
\* current_mode under its lock
DeviceChangeMode(c, dev, name) ==
    /\ ~InFlight(c)
    /\ LET new == [IdleCall EXCEPT !.device = dev, !.mode = name,
                                   !.before = current_mode,
                                   !.actuators = DOMAIN registry["actuator"].items]
           ev  == [op |-> "call", c |-> c, v |-> <<dev, name>>]
       IN  IF ~IsSome(get_device(dev))
           THEN /\ call' = [call EXCEPT ![c] = Returned(new, "NoDevice")]
                /\ log' = log \o <<ev, [op |-> "ret", c |-> c, v |-> "NoDevice"]>>
                /\ UNCHANGED current_mode
           ELSE LET b == Begin(name, current_mode)
                IN  IF b.result = "Ok"
                    THEN /\ call' = [call EXCEPT ![c] = [new EXCEPT !.pc = "step", !.k = 1]]
                         /\ current_mode' = b.current
                         /\ log' = log \o <<ev, [op |-> "write", c |-> c, v |-> b.current]>>
                    ELSE /\ call' = [call EXCEPT ![c] = Returned(new, b.result)]
                         /\ current_mode' = b.current
                         /\ log' = log \o <<ev, [op |-> "ret", c |-> c, v |-> b.result]>>
    /\ UNCHANGED <<watch, input, upload, reply, registry,
                   assigned, monitor, everLagged, slots, configured, bpc,
                   changed, stream>>

\* The loop left after its first step
AfterStepStores(cl) == [cl EXCEPT !.pc = "store"]

\* The position after step k of the target mode has been carried out
AfterStep(cl) ==
    LET target == ModeCfg[CHOOSE m \in FindMode(cl.mode) : TRUE]
    IN  IF cl.k < Len(target.sequence)
        THEN [cl EXCEPT !.pc = "step", !.k = @ + 1]
        ELSE [cl EXCEPT !.pc = "store"]

\* The step resolved through the id bound to its slot
find_bound(match_) ==
    LET ms == CHOOSE x \in StepSlots : StepCfg[x].match_ = match_
    IN  slots["actuator"][ms]

\* Server::find_actuator: Registry::find on the actuators as they are now
find_actuator(match_) == Find(registry["actuator"], match_)

\* One iteration of `for step in &target.sequence`: find_actuator in the
\* registry as it is now, then the actuator's set_mode, which returns Ok (ok)
\* or Err
SetModeStep(c, ok) ==
    /\ call[c].pc = "step"
    /\ LET target   == ModeCfg[CHOOSE m \in FindMode(call[c].mode) : TRUE]
           step     == target.sequence[call[c].k]
           provider == find_actuator(step.match_)
       IN  IF ~IsSome(provider)
           THEN /\ call' = [call EXCEPT ![c] = Failed(@)]
                /\ log' = Append(log, [op |-> "ret", c |-> c, v |-> "ActuatorFailed"])
           ELSE LET id  == CHOOSE i \in provider : TRUE
                    inv == [call[c] EXCEPT !.invoked =
                               Append(@, [id |-> id, parameters |-> step.parameters])]
                IN  IF ~ok
                    THEN /\ call' = [call EXCEPT ![c] = Failed(inv)]
                         /\ log' = Append(log, [op |-> "ret", c |-> c,
                                                v |-> "ActuatorFailed"])
                    ELSE /\ call' = [call EXCEPT ![c] =
                                        IF step.stabilisation
                                        THEN [inv EXCEPT !.pc = "sleep"]
                                        ELSE AfterStep(inv)]
                         /\ UNCHANGED log
    /\ UNCHANGED <<watch, input, upload, reply, registry,
                   assigned, monitor, everLagged, slots, configured, bpc,
                   changed, current_mode, stream>>

\* tokio::time::sleep(duration) of a step with a stabilisation delay is over
SetModeSlept(c) ==
    /\ call[c].pc = "sleep"
    /\ call' = [call EXCEPT ![c] = AfterStep(@)]
    /\ UNCHANGED <<watch, input, upload, reply, registry,
                   assigned, monitor, everLagged, slots, configured, bpc,
                   changed, current_mode, log, stream>>

\* *current = Some(mode.to_string()) under the lock
SetModeStore(c) ==
    /\ call[c].pc = "store"
    /\ current_mode' = Some(call[c].mode)
    /\ call' = [call EXCEPT ![c].pc = "notify"]
    /\ log' = Append(log, [op |-> "write", c |-> c, v |-> Some(call[c].mode)])
    /\ UNCHANGED <<watch, input, upload, reply, registry,
                   assigned, monitor, everLagged, slots, configured, bpc,
                   changed, stream>>

\* self.inner.notifier.notify().await; Ok(())
SetModeNotify(c) ==
    /\ call[c].pc = "notify"
    /\ stream' = Notified(stream)
    /\ call' = [call EXCEPT ![c] = Returned([@ EXCEPT !.emits = @ + 1], "Ok")]
    /\ log' = log \o <<[op |-> "emit", c |-> c, v |-> current_mode],
                        [op |-> "ret", c |-> c, v |-> "Ok"]>>
    /\ UNCHANGED <<watch, input, upload, reply, registry,
                   assigned, monitor, everLagged, slots, configured, bpc,
                   changed, current_mode>>

(***************************************************************************)
(* Server::device_info and the stream it returns                           *)
(***************************************************************************)
\* let info = (&device).into(): the first view of the stream
DeviceInfo(dev) ==
    /\ stream.pc = "none"
    /\ stream' = IF IsSome(get_device(dev))
                 THEN [stream EXCEPT !.pc = "info",
                                     !.last = Some(DeviceView(slots, current_mode))]
                 ELSE [stream EXCEPT !.pc = "not_found"]
    /\ UNCHANGED <<watch, input, upload, reply, registry,
                   assigned, monitor, everLagged, slots, configured, bpc,
                   changed, current_mode, call, log>>

\* let monitor = device.updates(): the stream's receiver of notifications
DeviceInfoWatch ==
    /\ stream.pc = "info"
    /\ stream' = [stream EXCEPT !.pc = "wait"]
    /\ UNCHANGED <<watch, input, upload, reply, registry,
                   assigned, monitor, everLagged, slots, configured, bpc,
                   changed, current_mode, call, log>>

\* monitor.wait().await.ok()?; let info = (&device).into(): the next view
DeviceInfoNext ==
    /\ stream.pc = "wait"
    /\ stream.pending
    /\ stream' = [stream EXCEPT !.pending = FALSE,
                                !.last = Some(DeviceView(slots, current_mode))]
    /\ UNCHANGED <<watch, input, upload, reply, registry,
                   assigned, monitor, everLagged, slots, configured, bpc,
                   changed, current_mode, call, log>>

(***************************************************************************)
(* Server::monitor and the stream of to_item_stream                        *)
(***************************************************************************)
\* Properties::name
PropName(properties) == CHOOSE v \in {kv[2] : kv \in {x \in properties : x[1] = "name"}} : TRUE

\* to_item_list: the (id, name) of every entry of Registry::contents
to_item_list(reg) ==
    LET cs == Contents(reg)
    IN  [i \in DOMAIN cs |-> [id |-> cs[i].id, name |-> PropName(cs[i].properties)]]

\* The item types a request may carry: the registries and one unknown value
ItemTypes == Kinds \cup {"unknown"}

\* Server::monitor up to `let monitor = registry.monitor()` of to_item_stream;
\* an unknown item type is answered with invalid_argument
Monitor(type_) ==
    /\ watch.pc = "none"
    /\ watch' = IF type_ \in Kinds
                THEN [watch EXCEPT !.pc = "subscribed", !.kind = type_,
                                   !.mon = OpenMonitor,
                                   !.atSub = DOMAIN registry[type_].items]
                ELSE [watch EXCEPT !.pc = "invalid_argument"]
    /\ UNCHANGED <<input, upload, reply, registry, assigned, monitor, everLagged, slots,
                   configured, bpc, changed, current_mode, call, log, stream>>

\* let initial = Ok(ItemEvent { event: Some(Event::Add(to_item_list(registry))) })
MonitorInitial ==
    /\ watch.pc = "subscribed"
    /\ watch' = [watch EXCEPT !.pc = "stream",
                    !.events = <<[type |-> "Add",
                                  item |-> to_item_list(registry[watch.kind])]>>]
    /\ UNCHANGED <<input, upload, reply, registry, assigned, monitor, everLagged, slots,
                   configured, bpc, changed, current_mode, call, log, stream>>

\* The event of the stream for one change of the registry
ItemEvent(change) ==
    IF change.type = "Added"
    THEN [type |-> "Add",
          item |-> <<[id |-> change.id, name |-> PropName(change.properties)]>>]
    ELSE [type |-> "Remove", id |-> change.id]

\* stream::unfold: monitor.recv().await.ok()? and the event made of the change;
\* the stream ends when recv returns an error
MonitorRecv ==
    /\ watch.pc = "stream"
    /\ watch.mon.lagged \/ watch.mon.queue # << >>
    /\ watch' = IF watch.mon.lagged
                THEN [watch EXCEPT !.pc = "ended", !.mon = ClosedMonitor]
                ELSE [watch EXCEPT !.mon.queue = Tail(@),
                                   !.events = Append(@, ItemEvent(Head(watch.mon.queue)))]
    /\ UNCHANGED <<input, upload, reply, registry, assigned, monitor, everLagged, slots,
                   configured, bpc, changed, current_mode, call, log, stream>>

(***************************************************************************)
(* Server::console_stream_input                                            *)
(***************************************************************************)
\* Server::get_console
get_console(id) == IF IsSome(Lookup(registry["console"], id)) THEN Some(id) ELSE None

\* The frames of a ConsoleInputRequest stream: target_or_data is
\* Console(id), Data(bytes) or not set
InputFrames ==
    {[kind |-> "console", v |-> 1], [kind |-> "console", v |-> 2],
     [kind |-> "data", v |-> 120], [kind |-> "data", v |-> 121],
     [kind |-> "none", v |-> 0]}

\* The client streams of at most n frames
RECURSIVE StreamsOf(_, _)
StreamsOf(F, n) ==
    IF n = 0 THEN {<< >>}
    ELSE LET shorter == StreamsOf(F, n - 1)
         IN  shorter \cup {Append(fs, f) : fs \in shorter, f \in F}

\* The request arrives: let mut rx = request.into_inner()
ConsoleStreamInput(frames) ==
    /\ input.pc = "none"
    /\ input' = [input EXCEPT !.pc = "first", !.request = frames, !.frames = frames]
    /\ UNCHANGED <<watch, upload, reply, registry, assigned, monitor, everLagged, slots,
                   configured, bpc, changed, current_mode, call, log, stream>>

\* The first frame taken as a selection whatever it carries
select_any(msg) ==
    IF IsSome(get_console(msg.v))
    THEN [console |-> get_console(msg.v), status |-> ""]
    ELSE [console |-> None, status |-> "not_found"]

\* The match on the first frame: the selected console, or the error status
select_console(msg) ==
    IF msg.kind = "console"
    THEN IF IsSome(get_console(msg.v))
         THEN [console |-> get_console(msg.v), status |-> ""]
         ELSE [console |-> None, status |-> "not_found"]
    ELSE [console |-> None, status |-> "invalid_argument"]

\* rx.message().await? for the first frame: Ok for a stream that ends at
\* once, else the selection
InputFirst ==
    /\ input.pc = "first"
    /\ input' = IF input.frames = << >>
                THEN [input EXCEPT !.pc = "done", !.status = "ok"]
                ELSE LET r == select_console(Head(input.frames))
                     IN  IF r.status # ""
                         THEN [input EXCEPT !.pc = "done", !.status = r.status]
                         ELSE [input EXCEPT !.pc = "data", !.console = r.console,
                                            !.frames = Tail(@)]
    /\ UNCHANGED <<watch, upload, reply, registry, assigned, monitor, everLagged, slots,
                   configured, bpc, changed, current_mode, call, log, stream>>

\* The chunk sent only to a console that is still registered
input_send_registered(sent, console, data) ==
    IF \E id \in console : IsSome(Lookup(registry["console"], id))
    THEN Append(sent, [console |-> console, data |-> data])
    ELSE sent

\* input.send(data).await.unwrap() on the sink obtained from the console
input_send(sent, console, data) == Append(sent, [console |-> console, data |-> data])

\* while let Some(request) = rx.message().await?: a data frame is sent to the
\* console, anything else ends the request with invalid_argument
InputData ==
    /\ input.pc = "data"
    /\ input' = IF input.frames = << >>
                THEN [input EXCEPT !.pc = "done", !.status = "ok"]
                ELSE LET f == Head(input.frames)
                     IN  IF f.kind = "data"
                         THEN [input EXCEPT !.frames = Tail(@),
                                  !.sent = input_send(@, input.console, f.v)]
                         ELSE [input EXCEPT !.pc = "done", !.status = "invalid_argument"]
    /\ UNCHANGED <<watch, upload, reply, registry, assigned, monitor, everLagged, slots,
                   configured, bpc, changed, current_mode, call, log, stream>>

(***************************************************************************)
(* Server::uploader_upload, the upload task and UploadProgress             *)
(***************************************************************************)
\* Server::get_uploader / self.inner.uploaders.lookup(id)
get_uploader(id) == IF IsSome(Lookup(registry["uploader"], id)) THEN Some(id) ELSE None

\* The frames of an UploadRequest stream: target_or_data is
\* Target(uploader, target, length), Data(bytes) or not set
TargetFrame(uploader, target, length) ==
    [kind |-> "target", uploader |-> uploader, target |-> target, length |-> length]
DataFrame == [kind |-> "data", v |-> 120]
UploadFrames ==
    {TargetFrame(1, "boot", 1), TargetFrame(2, "fw", 2), DataFrame, [kind |-> "none"]}

\* The same with a second chunk and with rx.message() returning Err (a
\* transport error) in place of a frame
UploadDataFrames ==
    UploadFrames \cup {[kind |-> "data", v |-> 121], [kind |-> "error"]}

\* The request arrives: let mut rx = request.into_inner()
UploaderUpload(frames) ==
    /\ upload.pc = "none"
    /\ upload' = [upload EXCEPT !.pc = "first", !.request = frames, !.frames = frames]
    /\ UNCHANGED <<watch, input, reply, registry, assigned, monitor, everLagged, slots,
                   configured, bpc, changed, current_mode, call, log, stream>>

\* The selection taken without looking the uploader up
select_unchecked(msg) ==
    IF msg.kind = "target"
    THEN [uploader |-> Some(msg.uploader), status |-> ""]
    ELSE IF msg.kind = "error"
    THEN [uploader |-> None, status |-> "transport_error"]
    ELSE [uploader |-> None, status |-> "invalid_argument"]

\* The match on the first frame: the selected uploader, or the error status
select_uploader(msg) ==
    IF msg.kind = "target"
    THEN IF IsSome(get_uploader(msg.uploader))
         THEN [uploader |-> get_uploader(msg.uploader), status |-> ""]
         ELSE [uploader |-> None, status |-> "not_found"]
    ELSE IF msg.kind = "error"
    THEN [uploader |-> None, status |-> "transport_error"]
    ELSE [uploader |-> None, status |-> "invalid_argument"]

\* UploadProgress::new: a watch channel holding written = 0, and a
\* WatchStream whose first poll yields the value the channel holds
\* tokio::spawn(uploader.upload(target, data, length, progress)): the upload
\* is started and the progress stream is returned at once
UploadFirst ==
    /\ upload.pc = "first"
    /\ upload' =
          IF upload.frames = << >>
          THEN [upload EXCEPT !.pc = "done", !.status = "invalid_argument"]
          ELSE LET msg == Head(upload.frames)
                   r   == select_uploader(msg)
               IN  IF r.status # ""
                   THEN [upload EXCEPT !.pc = "done", !.status = r.status]
                   ELSE [upload EXCEPT !.pc = "streaming", !.status = "ok",
                            !.frames = Tail(@),
                            !.started = Append(@, [uploader |-> r.uploader,
                                                   target |-> msg.target,
                                                   length |-> msg.length]),
                            !.tx = Some(0), !.fresh = TRUE]
    /\ UNCHANGED <<watch, input, reply, registry, assigned, monitor, everLagged, slots,
                   configured, bpc, changed, current_mode, call, log, stream>>

\* The unfold going on to the next frame after one that is no data frame
unfold_skipping(u) ==
    IF Head(u.frames).kind = "data"
    THEN [u EXCEPT !.frames = Tail(@), !.pulled = Append(@, Head(u.frames).v)]
    ELSE [u EXCEPT !.frames = Tail(@)]

\* The closure of stream::unfold: the bytes of a data frame are yielded; any
\* other frame and an Err of rx.message() end the data stream
unfold_next(u) ==
    IF Head(u.frames).kind = "data"
    THEN [u EXCEPT !.frames = Tail(@), !.pulled = Append(@, Head(u.frames).v)]
    ELSE [u EXCEPT !.frames = << >>]

\* The uploader polls `data`: the unfold yields the bytes of a data frame and
\* ends the data stream at the client's end or at any other frame
UploadPull ==
    /\ upload.pc \in {"streaming", "ended"}
    /\ ~upload.closed
    /\ upload.frames # << >>
    /\ upload' = unfold_next(upload)
    /\ UNCHANGED <<watch, input, reply, registry, assigned, monitor, everLagged, slots,
                   configured, bpc, changed, current_mode, call, log, stream>>

\* uploader.upload(...) returns: the task ends and drops `progress`
UploadDone ==
    /\ upload.pc \in {"streaming", "ended"}
    /\ ~upload.closed
    /\ upload' = [upload EXCEPT !.closed = TRUE]
    /\ UNCHANGED <<watch, input, reply, registry, assigned, monitor, everLagged, slots,
                   configured, bpc, changed, current_mode, call, log, stream>>

\* UploadProgress::update: the channel now holds the value and its receiver
\* has a change to see (a value not yet seen is overwritten)
ProgressUpdate(written) ==
    /\ upload.pc \in {"streaming", "ended"}
    /\ ~upload.closed
    /\ upload' = [upload EXCEPT !.tx = Some(written), !.fresh = TRUE,
                                !.updates = Append(@, written)]
    /\ UNCHANGED <<watch, input, reply, registry, assigned, monitor, everLagged, slots,
                   configured, bpc, changed, current_mode, call, log, stream>>

\* A receiver that looks at the closing of the channel before the change
poll_closed_first(u) ==
    IF u.closed THEN [u EXCEPT !.pc = "ended"]
    ELSE [u EXCEPT !.fresh = FALSE,
                   !.observed = Append(@, CHOOSE v \in u.tx : TRUE)]

\* WatchStream::poll_next on a ready receiver: the value the channel holds if
\* it has not been seen yet, the end of the stream if the sender is gone
poll_next(u) ==
    IF u.fresh
    THEN [u EXCEPT !.fresh = FALSE,
                   !.observed = Append(@, CHOOSE v \in u.tx : TRUE)]
    ELSE [u EXCEPT !.pc = "ended"]

\* The subscriber reads the progress stream
ProgressPoll ==
    /\ upload.pc = "streaming"
    /\ upload.fresh \/ upload.closed
    /\ upload' = poll_next(upload)
    /\ UNCHANGED <<watch, input, reply, registry, assigned, monitor, everLagged, slots,
                   configured, bpc, changed, current_mode, call, log, stream>>

(***************************************************************************)
(* The RPCs that address one console, actuator or uploader                 *)
(***************************************************************************)
\* Server::get_actuator: Registry::find_by_name
get_actuator(name) == Find(registry["actuator"], {<<"name", name>>})

\* The answer of a handler: the RPC, whether its lookup found the resource,
\* and the status returned
Answer(rpc, found, missing) ==
    [rpc |-> rpc, known |-> IsSome(found),
     status |-> IF IsSome(found) THEN "ok" ELSE missing]

\* Server::console_configure: configure on the console, or "Can't find
\* console"
ConsoleConfigure(id) ==
    /\ reply.rpc = ""
    /\ reply' = Answer("console_configure", get_console(id), "invalid_argument")
    /\ configured' = IF IsSome(get_console(id))
                     THEN [configured EXCEPT ![id] = @ + 1]
                     ELSE configured
    /\ UNCHANGED <<watch, input, upload, registry, assigned, monitor, everLagged, slots,
                   bpc, changed, current_mode, call, log, stream>>

\* Server::console_stream_output
ConsoleStreamOutput(id) ==
    /\ reply.rpc = ""
    /\ reply' = Answer("console_stream_output", get_console(id), "invalid_argument")
    /\ UNCHANGED <<watch, input, upload, registry, assigned, monitor, everLagged, slots,
                   configured, bpc, changed, current_mode, call, log, stream>>

\* Server::actuator_change_mode
ActuatorChangeMode(name) ==
    /\ reply.rpc = ""
    /\ reply' = Answer("actuator_change_mode", get_actuator(name), "invalid_argument")
    /\ UNCHANGED <<watch, input, upload, registry, assigned, monitor, everLagged, slots,
                   configured, bpc, changed, current_mode, call, log, stream>>

\* Server::uploader_commit
UploaderCommit(id) ==
    /\ reply.rpc = ""
    /\ reply' = Answer("uploader_commit", get_uploader(id), "not_found")
    /\ UNCHANGED <<watch, input, upload, registry, assigned, monitor, everLagged, slots,
                   configured, bpc, changed, current_mode, call, log, stream>>

\* Server::uploader_info
UploaderInfo(id) ==
    /\ reply.rpc = ""
    /\ reply' = Answer("uploader_info", get_uploader(id), "not_found")
    /\ UNCHANGED <<watch, input, upload, registry, assigned, monitor, everLagged, slots,
                   configured, bpc, changed, current_mode, call, log, stream>>

(***************************************************************************)
(* Specifications                                                          *)
(***************************************************************************)
\* The most calls of UploadProgress::update of one upload, and the largest
\* value passed
MaxUpdates == 3
MaxWritten == 2

\* The longest client stream of console_stream_input and uploader_upload
MaxFrames == 4

Providers ==
    \/ \E k \in Kinds : \E p \in PropChoices(k) :
          TotalAdds < MaxAdds /\ Register(k, p)
    \/ \E k \in Kinds : \E id \in 1..MaxAdds : Unregister(k, id)

Binding ==
    \/ BindMonitor
    \/ BindContents
    \/ BindNotify
    \/ \E k \in Kinds : BindChange(k)
    \/ \E k \in Kinds : BindLagged(k)

Sequencer ==
    \/ \E c \in Clients : \E r \in Requests :
          NumCalls < MaxCalls /\ DeviceChangeMode(c, r[1], r[2])
    \/ \E c \in Clients : \E ok \in BOOLEAN : SetModeStep(c, ok)
    \/ \E c \in Clients : SetModeSlept(c)
    \/ \E c \in Clients : SetModeStore(c)
    \/ \E c \in Clients : SetModeNotify(c)

Info ==
    \/ \E d \in DeviceInputs : DeviceInfo(d)
    \/ DeviceInfoWatch
    \/ DeviceInfoNext

Next == Providers \/ Binding \/ Sequencer \/ Info

\* The whole server
Spec == Init /\ [][Next]_vars

Watch ==
    \/ \E t \in ItemTypes : Monitor(t)
    \/ MonitorInitial
    \/ MonitorRecv

\* The registries and a monitor stream
SpecWatch == Init /\ [][Providers \/ Watch]_vars

\* The consoles and uploaders the providers have left registered before an
\* RPC is served: of the two ids handed out, none, the first or the second
ResourceSetups ==
    { << >>, (1 :> {<<"name", "r1">>, <<"type", "dfu">>}),
      (2 :> {<<"name", "r2">>, <<"type", "dfu">>}) }

InitResources ==
    /\ \E cs \in ResourceSetups : \E us \in ResourceSetups :
          registry = [k \in Kinds |->
                        CASE k = "console"  -> [next |-> 3, items |-> cs]
                          [] k = "uploader" -> [next |-> 3, items |-> us]
                          [] OTHER          -> EmptyRegistry]
    /\ assigned = [k \in Kinds |-> registry[k].items]
    /\ InitDevice

InputRpc ==
    \/ \E frames \in StreamsOf(InputFrames, MaxFrames) : ConsoleStreamInput(frames)
    \/ InputFirst
    \/ InputData

\* One console_stream_input request
SpecInput == InitResources /\ [][InputRpc]_vars

\* One console_stream_input request while consoles are unregistered
NextInputLive ==
    \/ InputRpc
    \/ \E id \in UNION {DOMAIN rs : rs \in ResourceSetups} : Unregister("console", id)
SpecInputLive == InitResources /\ [][NextInputLive]_vars

UploadRpc ==
    \/ \E frames \in StreamsOf(UploadFrames, MaxFrames) : UploaderUpload(frames)
    \/ UploadFirst
    \/ UploadPull
    \/ UploadDone

\* One uploader_upload request and the upload task it starts
SpecUpload == InitResources /\ [][UploadRpc]_vars

\* The same for client streams with two different chunks and transport errors
UploadDataRpc ==
    \/ /\ upload.pc = "none"
       /\ \E frames \in StreamsOf(UploadDataFrames, MaxFrames) : UploaderUpload(frames)
    \/ UploadFirst
    \/ UploadPull
    \/ UploadDone
SpecUploadData == InitResources /\ [][UploadDataRpc]_vars

\* An uploader is registered and a client uploads to it
InitProgress ==
    /\ registry = [k \in Kinds |->
                     IF k = "uploader"
                     THEN [next |-> 2, items |-> (1 :> {<<"name", "u1">>, <<"type", "dfu">>})]
                     ELSE EmptyRegistry]
    /\ assigned = [k \in Kinds |-> registry[k].items]
    /\ InitDevice

ProgressNext ==
    \/ UploaderUpload(<<TargetFrame(1, "boot", 1), DataFrame>>)
    \/ UploadFirst
    \/ UploadPull
    \/ \E w \in 0..MaxWritten : Len(upload.updates) < MaxUpdates /\ ProgressUpdate(w)
    \/ UploadDone
    \/ ProgressPoll

\* One upload and a subscriber that keeps reading its progress stream
SpecProgress == InitProgress /\ [][ProgressNext]_vars /\ WF_vars(ProgressPoll)

\* The registries and the binding task
SpecBind == Init /\ [][Providers \/ Binding]_vars

\* The registries and the binding task, which is scheduled whenever it can
\* make a step
SpecBindFair == Init /\ [][Providers \/ Binding]_vars /\ WF_vars(Binding)

\* The registries, the binding task and a device_info stream
SpecInfo == Init /\ [][Providers \/ Binding \/ Info]_vars

\* The actuators the providers have registered before the first request:
\* none, the one of the first steps, or one for every step
ActuatorSetups ==
    { << >>,
      (1 :> {<<"name", "pdu">>}),
      (1 :> {<<"name", "pdu">>}) @@ (2 :> {<<"name", "boot">>}) }

InitRegistered(actuators) ==
    /\ registry = [k \in Kinds |->
                     IF k = "actuator"
                     THEN [next |-> Cardinality(DOMAIN actuators) + 1,
                           items |-> actuators]
                     ELSE EmptyRegistry]
    /\ assigned = [k \in Kinds |-> registry[k].items]
    /\ InitDevice

\* The ids and the actuator names a request may carry
ResourceIds == {1, 2}
ActuatorNames == {"pdu", "boot"}

\* What the providers have left registered before the RPCs are served
InitAddressed ==
    /\ \E cs \in ResourceSetups : \E us \in ResourceSetups : \E as \in ActuatorSetups :
          registry = [k \in Kinds |->
                        CASE k = "console"  -> [next |-> 3, items |-> cs]
                          [] k = "uploader" -> [next |-> 3, items |-> us]
                          [] k = "actuator" -> [next |-> Cardinality(DOMAIN as) + 1,
                                                items |-> as]]
    /\ assigned = [k \in Kinds |-> registry[k].items]
    /\ InitDevice

\* One request of every RPC that addresses a resource by id or name
Addressed ==
    \/ \E id \in ResourceIds : ConsoleConfigure(id)
    \/ \E id \in ResourceIds : ConsoleStreamOutput(id)
    \/ \E name \in ActuatorNames : ActuatorChangeMode(name)
    \/ \E id \in ResourceIds : UploaderCommit(id)
    \/ \E id \in ResourceIds : UploaderInfo(id)
    \/ \E id \in ResourceIds : ConsoleStreamInput(<<[kind |-> "console", v |-> id]>>)
    \/ InputFirst
    \/ InputData
    \/ \E id \in ResourceIds : UploaderUpload(<<TargetFrame(id, "fw", 1)>>)
    \/ UploadFirst
    \/ \E d \in DeviceInputs : DeviceInfo(d)
    \/ \E c \in Clients : NumCalls < 1 /\ DeviceChangeMode(c, DeviceId + 1, "off")

SpecAddressed == InitAddressed /\ [][Addressed]_vars

\* Concurrent device_change_mode requests, the actuators failing or not
InitMode == \E actuators \in ActuatorSetups : InitRegistered(actuators)
SpecMode == InitMode /\ [][Sequencer]_vars

\* Requests issued one at a time, with an actuator registered for every step
\* and no actuator failing
InitSeq ==
    InitRegistered((1 :> {<<"name", "pdu">>}) @@ (2 :> {<<"name", "boot">>}))

NextSeq ==
    \/ \E c \in Clients : \E r \in Requests :
          /\ NumCalls < MaxCalls
          /\ \A o \in Clients : ~InFlight(o)
          /\ DeviceChangeMode(c, r[1], r[2])
    \/ \E c \in Clients : SetModeStep(c, TRUE)
    \/ \E c \in Clients : SetModeSlept(c)
    \/ \E c \in Clients : SetModeStore(c)
    \/ \E c \in Clients : SetModeNotify(c)
    \/ BindMonitor
    \/ BindContents
    \/ BindNotify

SpecSeq == InitSeq /\ [][NextSeq]_vars

\* Actuators registered while requests are served and the binding task runs
NextLate ==
    \/ \E p \in PropChoices("actuator") :
          registry["actuator"].next <= MaxAdds /\ Register("actuator", p)
    \/ BindMonitor
    \/ BindContents
    \/ BindNotify
    \/ BindChange("actuator")
    \/ \E c \in Clients : \E m \in ModeNames :
          NumCalls < DeviceCalls /\ DeviceChangeMode(c, DeviceId, m)
    \/ \E c \in Clients : \E ok \in BOOLEAN : SetModeStep(c, ok)
    \/ \E c \in Clients : SetModeSlept(c)
    \/ \E c \in Clients : SetModeStore(c)
    \/ \E c \in Clients : SetModeNotify(c)

SpecLate == Init /\ [][NextLate]_vars

\* The whole device: consoles coming and going, the binding task, requests and
\* a device_info stream, with an actuator registered for every step
NextDevice ==
    \/ \E p \in PropChoices("console") :
          registry["console"].next <= DeviceAdds /\ Register("console", p)
    \/ \E id \in 1..DeviceAdds : Unregister("console", id)
    \/ Binding
    \/ \E c \in Clients : \E r \in Requests :
          NumCalls < DeviceCalls /\ DeviceChangeMode(c, r[1], r[2])
    \/ \E c \in Clients : \E ok \in BOOLEAN : SetModeStep(c, ok)
    \/ \E c \in Clients : SetModeSlept(c)
    \/ \E c \in Clients : SetModeStore(c)
    \/ \E c \in Clients : SetModeNotify(c)
    \/ Info

SpecDevice == InitSeq /\ [][NextDevice]_vars

(***************************************************************************)
(* Properties of the binding task                                          *)
(***************************************************************************)
Registered(k, id) == id \in DOMAIN registry[k].items
RemovalPending(k, id) ==
    \E n \in DOMAIN monitor[k].queue : monitor[k].queue[n] = Removed(id)

\* C1 as stated: in every state, a slot whose bound id is Some(i) refers to an
\* entry that the registry of the slot's kind holds now and whose properties
\* satisfy the slot's criteria.
C1_BoundIdIsRegistered ==
    \A k \in Kinds : \A i \in DOMAIN slots[k] : \A id \in slots[k][i] :
        /\ Registered(k, id)
        /\ Matches(registry[k].items[id], SlotCfg(k)[i].match_)

\* C1 amended: a slot whose bound id is Some(i) refers to an entry that was
\* registered in the registry of the slot's kind with properties satisfying
\* the slot's criteria; and unless a receiver of the binding task has lost a
\* change, that entry is still registered or its Removed(i) is still waiting
\* in the task's receiver.
C1_BoundIdWasRegistered ==
    \A k \in Kinds : \A i \in DOMAIN slots[k] : \A id \in slots[k][i] :
        /\ id \in DOMAIN assigned[k]
        /\ Matches(assigned[k][id], SlotCfg(k)[i].match_)
        /\ everLagged \/ Registered(k, id) \/ RemovalPending(k, id)

\* A slot is bound to an entry that has been unregistered, its Removed still
\* to be processed by the task
C1_Witness ==
    /\ ~everLagged
    /\ \E k \in Kinds : \E i \in DOMAIN slots[k] : \E id \in slots[k][i] :
          ~Registered(k, id) /\ RemovalPending(k, id)

\* C2: first binder wins: a slot bound to Some(a) changes only to None, never
\* directly to Some(b) with b # a.
C2_FirstBinderWins ==
    [][\A k \in Kinds : \A i \in DOMAIN slots[k] :
          IsSome(slots[k][i]) => slots'[k][i] \in {slots[k][i], None}]_vars

(***************************************************************************)
(* Properties of the mode sequencer                                        *)
(***************************************************************************)
\* The declared mode of a given name
Declared(name) == ModeCfg[CHOOSE m \in DOMAIN ModeCfg : ModeCfg[m].name = name]

\* Client c's request has just returned: nothing has happened since
JustReturned(c) ==
    /\ call[c].pc = "done"
    /\ log # << >>
    /\ log[Len(log)].op = "ret"
    /\ log[Len(log)].c = c

\* C3: with requests issued one at a time, every step's actuator registered
\* and no actuator failing, set_mode(m) of a declared mode returns Ok iff m
\* has no prerequisite or current_mode was the prerequisite when it was
\* called; after Ok current_mode is m; after an error it is the value before
\* the call or None.
C3_SetModeOutcome ==
    \A c \in Clients :
        (JustReturned(c) /\ call[c].device = DeviceId /\ call[c].mode \in ModeNames)
        => LET need == Declared(call[c].mode).depends
           IN  /\ (call[c].result = "Ok") <=> (need = None \/ call[c].before = need)
               /\ call[c].result = "Ok" => current_mode = Some(call[c].mode)
               /\ call[c].result # "Ok" => current_mode \in {call[c].before, None}

\* set_mode("on") has just returned Ok, and a set_mode("on") issued in mode
\* None was refused before it
C3_Witness ==
    /\ \E c \in Clients :
          JustReturned(c) /\ call[c].mode = "on" /\ call[c].result = "Ok"
    /\ \E i \in DOMAIN log :
          log[i].op = "ret" /\ log[i].v = "WrongCurrentMode"

\* A transition is running: past the prerequisite check, the target mode not
\* yet stored
InTransition(c) == call[c].pc \in {"step", "sleep", "store"}

\* C4: while a set_mode call on the device has passed its prerequisite check
\* and not yet completed, current_mode reads None, also when calls overlap.
C4_NoneWhileInTransition ==
    (\E c \in Clients : InTransition(c)) => current_mode = None

\* C5: at most one set_mode call on the device is between its prerequisite
\* check and its return.
C5_OneTransitionAtATime ==
    Cardinality({c \in Clients : InFlight(c)}) <= 1

\* C6: current_mode is always None or the name of a declared mode, and it is
\* changed only by set_mode: by its clearing under the lock and by its store of
\* the target name; registrations, the binding task and device_info leave it.
C6_OnlySetModeWrites ==
    /\ [](current_mode = None \/ \E m \in ModeNames : current_mode = Some(m))
    /\ [][current_mode' # current_mode =>
            \E c \in Clients :
                \/ ~InFlight(c) /\ call'[c].pc = "step" /\ current_mode' = None
                \/ /\ call[c].pc = "store" /\ call'[c].pc = "notify"
                   /\ current_mode' = Some(call[c].mode)]_vars

\* The device is in a mode while the binding task has bound the console, has
\* lost a change, and a device_info stream is open
C6_Witness ==
    /\ IsSome(current_mode)
    /\ IsSome(slots["console"][1])
    /\ everLagged
    /\ stream.pc = "wait"

\* C10: every change of current_mode is followed by a notification, so once no
\* set_mode is running the last notification was sent with current_mode as it
\* is now (before any notification the subscribers know the initial None).
LastNotified ==
    LET es == {i \in DOMAIN log : log[i].op = "emit"}
    IN  IF es = {} THEN None ELSE log[CHOOSE i \in es : \A j \in es : j <= i].v

C10_EveryChangeNotified ==
    (\A c \in Clients : ~InFlight(c)) => LastNotified = current_mode

(***************************************************************************)
(* Properties of the device view and of the device_change_mode RPC         *)
(***************************************************************************)
\* The step computes a view: the first one of device_info or the next one of
\* its stream
ViewComputed ==
    \/ stream.pc = "none" /\ stream'.pc = "info"
    \/ stream.pc = "wait" /\ stream.pending /\ ~stream'.pending

\* C7: in every view computed for device_info, a mode is reported available
\* iff none of its steps is unbound at that moment, and every console and
\* uploader entry carries the slot's bound id of that moment.
C7_ViewReflectsSlots ==
    [][ViewComputed =>
         LET v == CHOOSE x \in stream'.last : TRUE
         IN  /\ \A m \in DOMAIN ModeCfg :
                   v.modes[m].available
                       <=> ~\E ms \in StepSlots : ms[1] = m /\ slots["actuator"][ms] = None
             /\ \A i \in ConsoleSlots : v.consoles[i].id = slots["console"][i]
             /\ \A i \in UploaderSlots : v.uploaders[i].id = slots["uploader"][i]]_vars

\* A view was computed with the console bound, mode off available and mode on
\* not: only the first of its two steps is bound
C7_Witness ==
    \E v \in stream.last :
        /\ IsSome(v.consoles[1].id)
        /\ v.modes[1].available
        /\ ~v.modes[2].available
        /\ IsSome(slots["actuator"][<<2, 1>>])

\* Client c issues a request in this step
Requested(c) ==
    /\ Len(log') > Len(log)
    /\ log'[Len(log) + 1].op = "call"
    /\ log'[Len(log) + 1].c = c

\* The request of record r was refused with the status, without any effect
Rejected(r, status) ==
    /\ r.pc = "done"
    /\ r.status = status
    /\ current_mode' = current_mode
    /\ r.invoked = << >>
    /\ r.emits = 0
    /\ stream' = stream
    /\ \A i \in (Len(log) + 1)..Len(log') : log'[i].op \in {"call", "ret"}

\* C8: device_change_mode on an unknown device id or an undeclared mode
\* returns not-found, on a mode whose prerequisite differs from current_mode
\* failed-precondition, in each case leaving current_mode as it was, invoking
\* no actuator and notifying nobody; a failure at a step returns aborted.
C8_RejectedHasNoEffect ==
    [][\A c \in Clients :
          /\ Requested(c) =>
                LET r == call'[c]
                    known == r.device = DeviceId
                IN  /\ ~known => Rejected(r, "not_found")
                    /\ (known /\ r.mode \notin ModeNames) => Rejected(r, "not_found")
                    /\ ( /\ known /\ r.mode \in ModeNames
                         /\ IsSome(Declared(r.mode).depends)
                         /\ Declared(r.mode).depends # current_mode )
                       => Rejected(r, "failed_precondition")
          /\ (call[c].pc = "step" /\ call'[c].pc = "done")
                => call'[c].status = "aborted"]_vars

\* A request was refused for its prerequisite while the device was in a mode,
\* and the device is still in that mode
C8_Witness ==
    \E c \in Clients :
        /\ JustReturned(c)
        /\ call[c].status = "failed_precondition"
        /\ IsSome(call[c].before)
        /\ current_mode = call[c].before

\* The entries of the log about calls and returns, and those about
\* current_mode and the notifier
IsCallOrRet(e) == e.op \in {"call", "ret"}
IsWriteOrEmit(e) == e.op \in {"write", "emit"}

\* set_mode("off") was called and returned Ok, then set_mode("on") was called
OffThenOn(ops) ==
    /\ Len(ops) >= 4
    /\ ops[1].op = "call" /\ ops[1].v = <<DeviceId, "off">>
    /\ ops[2].op = "ret" /\ ops[2].v = "Ok"
    /\ ops[3].op = "call" /\ ops[3].v = <<DeviceId, "on">>
    /\ ops[4].op = "ret"

\* C9: a set_mode call that returns Ok has sent exactly one notification, after
\* its store of the target name; a call that fails has sent none.  And
\* set_mode("off") followed by set_mode("on") is not refused, and when both
\* return Ok current_mode was written None, off, None, on, with the
\* notifications right after the writes of off and on.
C9_OneNotificationPerOk ==
    /\ \A c \in Clients :
          /\ call[c].pc = "done" =>
                call[c].emits = (IF call[c].result = "Ok" THEN 1 ELSE 0)
          /\ InFlight(c) => call[c].emits = 0
    /\ \A i \in DOMAIN log :
          log[i].op = "emit" =>
             \E j \in 1..(i - 1) :
                /\ log[j].op = "write" /\ log[j].c = log[i].c /\ IsSome(log[j].v)
                /\ \A n \in (j + 1)..(i - 1) : log[n].c # log[i].c
                /\ \E n \in 1..(j - 1) :
                      /\ log[n].op = "call" /\ log[n].c = log[i].c
                      /\ log[j].v = Some(log[n].v[2])
                      /\ \A q \in (n + 1)..(j - 1) :
                            ~(log[q].op = "call" /\ log[q].c = log[i].c)
    /\ LET ops == SelectSeq(log, IsCallOrRet)
           ws  == SelectSeq(log, IsWriteOrEmit)
       IN  OffThenOn(ops) =>
              /\ ops[4].v \in {"Ok", "ActuatorFailed"}
              /\ ops[4].v = "Ok" =>
                    /\ Len(ws) >= 6
                    /\ [i \in 1..6 |-> <<ws[i].op, ws[i].v>>] =
                          << <<"write", None>>, <<"write", Some("off")>>,
                             <<"emit", Some("off")>>, <<"write", None>>,
                             <<"write", Some("on")>>, <<"emit", Some("on")>> >>

\* set_mode("off") and then set_mode("on") have returned Ok, and another call
\* has failed at a step
C9_Witness ==
    /\ LET ops == SelectSeq(log, IsCallOrRet)
       IN  OffThenOn(ops) /\ ops[4].v = "Ok"
    /\ \E c \in Clients : call[c].pc = "done" /\ call[c].result = "ActuatorFailed"

(***************************************************************************)
(* Properties of the binding task and of the device_info stream            *)
(***************************************************************************)
\* The console entry id is the only console ever registered, it satisfies the
\* console slot i, it is still registered and no subscription has lagged
OnlyConsole(id, i) ==
    /\ DOMAIN assigned["console"] = {id}
    /\ Registered("console", id)
    /\ Matches(assigned["console"][id], ConsoleCfg[i].match_)
    /\ ~everLagged

\* C11: a console that satisfies a console slot, registered once and not
\* removed, is never configured more than once by the binding task, and once
\* the task has processed everything the slot is bound to it and it was
\* configured once, whenever it was registered relative to the task's start.
C11_ConfiguredOnce ==
    \A id \in DOMAIN assigned["console"] : \A i \in ConsoleSlots :
        OnlyConsole(id, i) =>
            /\ configured[id] <= 1
            /\ (bpc.stage = "select" /\ monitor["console"].queue = << >>)
                  => slots["console"][i] = Some(id) /\ configured[id] = 1

\* The device has stopped changing: the binding task waits in its select with
\* nothing to receive and no set_mode call is running
DeviceSettled ==
    /\ bpc.stage = "select"
    /\ \A k \in Kinds : monitor[k].queue = << >> /\ ~monitor[k].lagged
    /\ \A c \in Clients : ~InFlight(c)

\* C12: once the device has stopped changing and the device_info stream has
\* no notification left to read, the last view it emitted is the device's
\* current state, also for a change made while the request was being served.
C12_StreamNotStale ==
    (stream.pc = "wait" /\ ~stream.pending /\ DeviceSettled)
        => stream.last = Some(DeviceView(slots, current_mode))

(***************************************************************************)
(* Properties of the monitor stream                                        *)
(***************************************************************************)
\* The ids an add-event lists
Listed(ev) == {ev.item[i].id : i \in DOMAIN ev.item}

\* The entries a client holds after applying the first n events in order
RECURSIVE Replay(_, _)
Replay(events, n) ==
    IF n = 0 THEN {}
    ELSE LET ev == events[n]
         IN  IF ev.type = "Add"
             THEN Replay(events, n - 1) \cup Listed(ev)
             ELSE Replay(events, n - 1) \ {ev.id}

\* C13: on a monitor stream that has not lagged, the first event is an
\* add-event listing exactly the entries registered when the stream
\* subscribed, every later event is an add-event of one entry or a
\* remove-event, no later add-event lists an id of the first event, and once
\* every change has been received the replay of the events is the registry.
C13_MonitorEvents ==
    (watch.pc = "stream" /\ ~watch.mon.lagged) =>
        LET evs == watch.events
        IN  /\ evs[1].type = "Add"
            /\ Listed(evs[1]) = watch.atSub
            /\ \A n \in 2..Len(evs) :
                  /\ evs[n].type = "Add" => Len(evs[n].item) = 1
                  /\ evs[n].type = "Add" => Listed(evs[n]) \cap Listed(evs[1]) = {}
            /\ watch.mon.queue = << >>
                  => Replay(evs, Len(evs)) = DOMAIN registry[watch.kind].items

(***************************************************************************)
(* Properties of the streaming RPCs                                        *)
(***************************************************************************)
\* The first frame of the request is a console selection
FirstSelects(fs) == fs # << >> /\ fs[1].kind = "console"
\* It selects a console of the registry
FirstSelectsRegistered(fs) ==
    FirstSelects(fs) /\ IsSome(Lookup(registry["console"], fs[1].v))
\* A frame after the first is not a data frame
LaterNotData(fs) == \E i \in 2..Len(fs) : fs[i].kind # "data"

\* C14 as stated: invalid-argument iff the first frame is no selection or a
\* later frame is no data frame, not-found iff the first frame selects an
\* unregistered id, Ok iff the stream is empty or a selection of a registered
\* console followed by data frames only.
C14_InputFraming ==
    input.pc = "done" =>
        LET fs == input.request
        IN  /\ input.status = "invalid_argument"
                  <=> ((fs # << >> /\ ~FirstSelects(fs)) \/ LaterNotData(fs))
            /\ input.status = "not_found"
                  <=> (FirstSelects(fs) /\ ~FirstSelectsRegistered(fs))
            /\ input.status = "ok"
                  <=> (fs = << >> \/ (FirstSelectsRegistered(fs) /\ ~LaterNotData(fs)))

\* C14, amended: the frames are judged in order.  invalid-argument iff the
\* first frame is no selection, or it selects a registered console and a
\* later frame is no data frame; not-found iff the first frame selects an
\* unregistered id, whatever follows; Ok iff the stream is empty or a
\* selection of a registered console followed by data frames only.  Data
\* reaches a console only after the selection of a registered console, and
\* then only that console.
C14_InputFramingInOrder ==
    /\ input.sent # << >> => FirstSelectsRegistered(input.request)
    /\ \A i \in DOMAIN input.sent : input.sent[i].console = Some(input.request[1].v)
    /\ input.pc = "done" =>
        LET fs == input.request
        IN  /\ input.status = "invalid_argument"
                  <=> \/ fs # << >> /\ ~FirstSelects(fs)
                      \/ FirstSelectsRegistered(fs) /\ LaterNotData(fs)
            /\ input.status = "not_found"
                  <=> (FirstSelects(fs) /\ ~FirstSelectsRegistered(fs))
            /\ input.status = "ok"
                  <=> (fs = << >> \/ (FirstSelectsRegistered(fs) /\ ~LaterNotData(fs)))

\* A request that selected a registered console and sent it data was refused
\* at a second selection
C14_Witness ==
    /\ input.pc = "done"
    /\ input.status = "invalid_argument"
    /\ input.sent # << >>
    /\ input.request[Len(input.request)].kind = "console"

\* The first frame of the upload request is a selector
SelectorFirst(fs) == fs # << >> /\ fs[1].kind = "target"

\* C15: uploader_upload answers invalid-argument to an empty stream and to a
\* first frame that is no selector, and not-found to a selector of an
\* unregistered uploader, starting no upload; otherwise it starts exactly one
\* upload, on the selected uploader with the selected target and length, and
\* returns the progress stream while that upload is still running.
C15_UploadSelection ==
    /\ [](upload.pc \notin {"none", "first"} =>
            LET fs == upload.request
            IN  IF ~SelectorFirst(fs)
                THEN upload.status = "invalid_argument" /\ upload.started = << >>
                ELSE IF ~IsSome(Lookup(registry["uploader"], fs[1].uploader))
                THEN upload.status = "not_found" /\ upload.started = << >>
                ELSE /\ upload.status = "ok"
                     /\ upload.started = <<[uploader |-> Some(fs[1].uploader),
                                             target |-> fs[1].target,
                                             length |-> fs[1].length]>>)
    /\ [][(upload.pc = "first" /\ upload'.status = "ok")
            => /\ upload'.pc = "streaming"
               /\ ~upload'.closed
               /\ upload'.pulled = << >>]_vars

\* An upload was started on uploader 2 and has read a data frame, the
\* progress stream having been returned
C15_Witness ==
    /\ upload.status = "ok"
    /\ upload.started # << >>
    /\ upload.started[1].uploader = Some(2)
    /\ upload.pulled # << >>
    /\ ~upload.closed

RECURSIVE IsSubseq(_, _)
IsSubseq(a, b) ==
    IF a = << >> THEN TRUE
    ELSE IF b = << >> THEN FALSE
    ELSE IF Head(a) = Head(b)
         THEN IsSubseq(Tail(a), Tail(b)) \/ IsSubseq(a, Tail(b))
         ELSE IsSubseq(a, Tail(b))

NonDecreasing(q) == \A i \in 1..(Len(q) - 1) : q[i] <= q[i + 1]

\* The values the progress channel has held: the initial 0, then the updates
Written == <<0>> \o upload.updates

\* C16: the values a progress subscriber has observed are, in order, a
\* subsequence of 0 followed by the values passed to update, hence
\* non-decreasing when the updates are; a stream that has ended has delivered
\* the last value passed to update; and a subscriber that keeps reading
\* reaches the end of the stream once the upload is over.
C16_ProgressLatestWins ==
    /\ [](/\ IsSubseq(upload.observed, Written)
          /\ NonDecreasing(Written) => NonDecreasing(upload.observed)
          /\ upload.pc = "ended" =>
                /\ upload.observed # << >>
                /\ upload.observed[Len(upload.observed)] = Written[Len(Written)])
    /\ (upload.closed ~> upload.pc = "ended")

\* The stream has ended after the subscriber missed an update and saw the
\* last one
C16_Witness ==
    /\ upload.pc = "ended"
    /\ Len(upload.updates) = MaxUpdates
    /\ Len(upload.observed) < Len(upload.updates)
    /\ upload.observed[Len(upload.observed)] = MaxWritten

\* C17: every RPC that addresses a console, device, actuator or uploader
\* answers not-found when the addressed resource is not registered.
C17_UnknownIsNotFound ==
    /\ (reply.rpc # "" /\ ~reply.known) => reply.status = "not_found"
    /\ (input.pc = "done" /\ FirstSelects(input.request)
           /\ ~FirstSelectsRegistered(input.request)) => input.status = "not_found"
    /\ (upload.pc = "done" /\ SelectorFirst(upload.request)
           /\ ~IsSome(get_uploader(upload.request[1].uploader)))
          => upload.status = "not_found"
    /\ stream.pc \notin {"none", "not_found"} => stream.last # None
    /\ \A c \in Clients :
          (call[c].pc = "done" /\ ~IsSome(get_device(call[c].device)))
             => call[c].status = "not_found"

(***************************************************************************)
(* Properties of the registries and of the binding task's event handling   *)
(***************************************************************************)
\* C18: in every registry the ids handed out so far are 1, 2, ... without a
\* gap, and each register call returns an id that was never returned before
\* and is larger than every id returned before, also after removals.
C18_IdsIncrease ==
    /\ [](\A k \in Kinds :
            /\ DOMAIN assigned[k] = 1..(registry[k].next - 1)
            /\ DOMAIN registry[k].items \subseteq DOMAIN assigned[k])
    /\ [][\A k \in Kinds :
            \A id \in DOMAIN registry'[k].items \ DOMAIN registry[k].items :
               /\ id >= 1
               /\ id \notin DOMAIN assigned[k]
               /\ \A j \in DOMAIN assigned[k] : j < id]_vars

\* A console was registered, removed, and another one registered: it holds
\* the second id
C18_Witness ==
    /\ DOMAIN registry["console"].items = {2}
    /\ DOMAIN assigned["console"] = {1, 2}
    /\ assigned["console"][1] = assigned["console"][2]

\* The binding task takes Removed(id) from its receiver of kind k in this step
ProcessesRemoved(k, id) ==
    /\ bpc.stage = "select"
    /\ registry' = registry
    /\ ~monitor[k].lagged /\ ~monitor'[k].lagged
    /\ monitor'[k].open
    /\ monitor[k].queue # << >>
    /\ Head(monitor[k].queue) = Removed(id)
    /\ monitor'[k].queue = Tail(monitor[k].queue)

\* C19: when the binding task processes Removed(id) of kind k, the slots of
\* kind k bound to id become None and every other slot of that kind, the
\* slots of the other kinds and current_mode stay as they are; if no slot was
\* bound to id nothing changes and no notification is sent.
C19_RemovedClearsOnlyBound ==
    [][\A k \in Kinds : \A id \in 1..MaxAdds :
          ProcessesRemoved(k, id) =>
             /\ \A i \in DOMAIN slots[k] :
                   slots'[k][i] = IF slots[k][i] = Some(id) THEN None ELSE slots[k][i]
             /\ \A j \in Kinds \ {k} : slots'[j] = slots[j]
             /\ current_mode' = current_mode
             /\ stream' = stream
             /\ IF \E i \in DOMAIN slots[k] : slots[k][i] = Some(id)
                THEN bpc'.stage = "notify"
                ELSE bpc' = bpc /\ slots' = slots]_vars

\* The binding task, which has not been restarted, has bound the console
\* slot and cleared it again at the console's Removed, the uploader slot
\* staying bound, and is about to notify
C19_Witness ==
    /\ bpc.stage = "notify"
    /\ ~everLagged
    /\ slots["console"][1] = None
    /\ \E id \in DOMAIN assigned["console"] :
          configured[id] >= 1 /\ ~Registered("console", id)
    /\ IsSome(slots["uploader"][1])

\* Entry id of kind k is registered and satisfies slot i, no other entry
\* registered so far satisfies that slot, and no subscription has lagged
OnlyEntry(k, id, i) ==
    /\ Registered(k, id)
    /\ Matches(assigned[k][id], SlotCfg(k)[i].match_)
    /\ \A other \in DOMAIN assigned[k] \ {id} :
          ~Matches(assigned[k][other], SlotCfg(k)[i].match_)
    /\ ~everLagged

\* The binding task is past its snapshot and has nothing left to receive
BindSettled ==
    /\ bpc.stage = "select"
    /\ \A k \in Kinds : monitor[k].queue = << >> /\ ~monitor[k].lagged

\* C20: an entry that is the only one satisfying a slot and stays registered
\* ends up bound to it whenever it was registered relative to the binding
\* task's start: the slot is bound once the task is past its snapshot with
\* no change of that kind left to receive, and the task, scheduled whenever
\* it can make a step, gets there again and again.
C20_NoAddMissed ==
    /\ [](\A k \in Kinds : \A id \in DOMAIN assigned[k] : \A i \in DOMAIN SlotCfg(k) :
            (/\ OnlyEntry(k, id, i)
             /\ bpc.stage \in {"notify", "select"}
             /\ monitor[k].queue = << >>)
            => slots[k][i] = Some(id))
    /\ []<>BindSettled

\* A console registered between the task's subscription and its snapshot is
\* bound: both the snapshot and the queued Added have set it up
C20_Witness ==
    \E id \in DOMAIN assigned["console"] :
        /\ OnlyEntry("console", id, 1)
        /\ slots["console"][1] = Some(id)
        /\ configured[id] = 2

(***************************************************************************)
(* Properties of the step loop of set_mode                                 *)
(***************************************************************************)
\* Client c's last request was for a declared mode of the device and passed
\* the prerequisite check
Sequenced(c) ==
    /\ call[c].pc # "idle"
    /\ call[c].device = DeviceId
    /\ call[c].mode \in ModeNames
    /\ call[c].result # "WrongCurrentMode"

\* No other client's request appears in the log since c's last call
Alone(c) ==
    \E n \in DOMAIN log :
        /\ log[n].op = "call" /\ log[n].c = c
        /\ \A j \in n..Len(log) : log[j].c = c

\* C21: the actuators of a set_mode call are invoked in the order of the
\* mode's sequence, each step once, the next one only when the previous one
\* returned Ok and its stabilisation delay is over; a step that has no
\* actuator or fails ends the call with ActuatorFailed, nothing more being
\* invoked, and with no other set_mode around current_mode is None then.
C21_StepsInOrder ==
    /\ [](\A c \in Clients : Sequenced(c) =>
            LET seq == Declared(call[c].mode).sequence
                inv == call[c].invoked
            IN  /\ Len(inv) <= Len(seq)
                /\ \A j \in DOMAIN inv : inv[j].parameters = seq[j].parameters
                /\ call[c].pc = "step" => Len(inv) = call[c].k - 1
                /\ call[c].pc = "sleep" =>
                      Len(inv) = call[c].k /\ seq[call[c].k].stabilisation
                /\ (call[c].pc \in {"store", "notify"} \/ call[c].result = "Ok")
                      => Len(inv) = Len(seq)
                /\ (JustReturned(c) /\ call[c].result = "ActuatorFailed" /\ Alone(c))
                      => current_mode = None)
    /\ [][\A c \in Clients :
            /\ (Sequenced(c) /\ call[c].pc = "step" /\ call'[c] # call[c]) =>
                  \/ /\ call'[c].result = "ActuatorFailed"
                     /\ call'[c].pc = "done"
                     /\ Len(call'[c].invoked) <= Len(call[c].invoked) + 1
                  \/ /\ Len(call'[c].invoked) = Len(call[c].invoked) + 1
                     /\ call'[c].pc =
                          IF Declared(call[c].mode).sequence[call[c].k].stabilisation
                          THEN "sleep"
                          ELSE IF call[c].k < Len(Declared(call[c].mode).sequence)
                               THEN "step" ELSE "store"
            /\ (call[c].pc \in {"sleep", "store", "notify"})
                  => call'[c].invoked = call[c].invoked
            /\ (call[c].pc = "done" /\ ~Requested(c))
                  => call'[c].invoked = call[c].invoked]_vars

\* set_mode("on") has just failed at its second step after invoking the
\* first, leaving current_mode None
C21_Witness ==
    \E c \in Clients :
        /\ JustReturned(c) /\ Alone(c)
        /\ call[c].mode = "on"
        /\ call[c].result = "ActuatorFailed"
        /\ Len(call[c].invoked) = 1
        /\ current_mode = None

\* Client c's set_mode executes a step in this transition
StepTaken(c) == Sequenced(c) /\ call[c].pc = "step" /\ call'[c] # call[c]

\* C22: a step of set_mode fails without an invocation iff the actuator
\* registry holds no entry satisfying the step when the step is reached, and
\* otherwise invokes the first such entry, whatever the step's slot is bound
\* to and whatever was registered when set_mode was called.
C22_LateBinding ==
    [][\A c \in Clients :
          StepTaken(c) =>
             LET step  == Declared(call[c].mode).sequence[call[c].k]
                 found == Find(registry["actuator"], step.match_)
             IN  IF found = None
                 THEN /\ call'[c].result = "ActuatorFailed"
                      /\ call'[c].invoked = call[c].invoked
                 ELSE /\ Len(call'[c].invoked) = Len(call[c].invoked) + 1
                      /\ Some(call'[c].invoked[Len(call'[c].invoked)].id) = found]_vars

\* set_mode("off") has invoked an actuator that was registered after the call
\* began and is not bound to the step's slot
C22_Witness ==
    \E c \in Clients :
        /\ call[c].mode = "off"
        /\ Len(call[c].invoked) = 1
        /\ call[c].invoked[1].id \notin call[c].actuators
        /\ slots["actuator"][<<1, 1>>] = None

(***************************************************************************)
(* Notifications of the binding task                                       *)
(***************************************************************************)
\* The binding task takes one event from its receiver of kind k in this step
ProcessesEvent(k) ==
    /\ bpc.stage = "select"
    /\ registry' = registry
    /\ ~monitor[k].lagged /\ ~monitor'[k].lagged
    /\ monitor'[k].open
    /\ monitor[k].queue # << >>
    /\ monitor'[k].queue = Tail(monitor[k].queue)

\* The binding task reads the contents of one registry in this step
ReadsContents == bpc.stage = "contents" /\ bpc' # bpc

\* C23: the binding task decides to notify after processing a registry event,
\* and raises its changed flag while processing the initial snapshot, if and
\* only if that processing changed the bound-id of some slot; after the
\* snapshot it notifies iff the flag is raised; and the notification is sent
\* with the slots as the processing left them.
C23_NotifyIffChanged ==
    [][/\ \A k \in Kinds :
              ProcessesEvent(k) => ((bpc'.stage = "notify") <=> (slots' # slots))
       /\ ReadsContents =>
              /\ slots' # slots => changed'
              /\ changed' /\ ~changed => slots' # slots
              /\ bpc'.stage = "notify" => changed'
              /\ bpc'.stage = "select" => ~changed'
       /\ bpc.stage = "notify" /\ stream' # stream => slots' = slots]_vars

(***************************************************************************)
(* The binding task after a lagged subscription                            *)
(***************************************************************************)
\* C24: once a subscription of the binding task has lagged and the task, run
\* again, is past its snapshot with nothing left to receive, every bound-id
\* names an entry that is registered and satisfies its slot.
C24_LagRecovered ==
    (everLagged /\ BindSettled) =>
        \A k \in Kinds : \A i \in DOMAIN slots[k] : \A id \in slots[k][i] :
            /\ Registered(k, id)
            /\ Matches(registry[k].items[id], SlotCfg(k)[i].match_)

(***************************************************************************)
(* What console_stream_input delivers                                      *)
(***************************************************************************)
\* The frames of the request after the selection, and how many of them the
\* request has taken off the stream
AfterSelection == Tail(input.request)
Taken == Len(AfterSelection) - Len(input.frames)

\* C25: for a request that obtained a console, the chunks sent to that
\* console are, frame for frame and in order, the data frames taken off the
\* stream so far; the request goes on until the stream ends or a frame is not
\* a data frame, whether or not the console is still registered; and what was
\* sent stays sent.
C25_InputInOrder ==
    /\ [](IsSome(input.console) =>
            /\ Len(input.sent) = Taken
            /\ \A i \in 1..Taken :
                  /\ AfterSelection[i].kind = "data"
                  /\ input.sent[i] = [console |-> input.console,
                                      data |-> AfterSelection[i].v]
            /\ input.pc = "done" =>
                  \/ input.frames = << >> /\ input.status = "ok"
                  \/ /\ input.frames # << >>
                     /\ Head(input.frames).kind # "data"
                     /\ input.status = "invalid_argument")
    /\ [][/\ Len(input.sent') >= Len(input.sent)
          /\ SubSeq(input.sent', 1, Len(input.sent)) = input.sent]_vars

\* Two different chunks were delivered in order to a console that is no
\* longer registered, and the request was then refused at a second selection
C25_Witness ==
    /\ input.pc = "done"
    /\ input.status = "invalid_argument"
    /\ Len(input.sent) = 2
    /\ input.sent[1].data # input.sent[2].data
    /\ input.request[Len(input.request)].kind = "console"
    /\ \A id \in input.console : ~Registered("console", id)

(***************************************************************************)
(* The slots when the binding task has caught up                           *)
(***************************************************************************)
\* The registered entries of kind k that satisfy slot i
Candidates(k, i) ==
    {id \in DOMAIN registry[k].items :
        Matches(registry[k].items[id], SlotCfg(k)[i].match_)}

\* C26: when the binding task is past its snapshot with nothing left to
\* receive and none of its subscriptions has ever lagged, every bound-id is
\* the id of a registered entry that satisfies its slot.
C26_QuiescentBound ==
    (BindSettled /\ ~everLagged) =>
        \A k \in Kinds : \A i \in DOMAIN slots[k] : slots[k][i] \subseteq Candidates(k, i)

\* The task has caught up with two registered entries satisfying one slot
C26_Witness ==
    /\ BindSettled /\ ~everLagged
    /\ \E k \in Kinds : \E i \in DOMAIN slots[k] :
          /\ IsSome(slots[k][i])
          /\ Cardinality(Candidates(k, i)) = 2

(***************************************************************************)
(* What uploader_upload hands to the uploader                              *)
(***************************************************************************)
\* The bytes of the data frames at the head of fs, up to the first frame that
\* is no data frame
RECURSIVE LeadingData(_)
LeadingData(fs) ==
    IF fs = << >> \/ Head(fs).kind # "data" THEN << >>
    ELSE <<Head(fs).v>> \o LeadingData(Tail(fs))

====
